---- MODULE Spec2Model ----
(***************************************************************************)
(* TEXTWEAVE: the Flask OCR backend (backend/app/app.py) and its ocr_utils *)
(* package (preprocess.py, reader.py, postprocess.py).                     *)
(*                                                                         *)
(* Strings are sequences of code points, so that str.lower, str.rsplit,    *)
(* str.split, str.strip, re.sub and secure_filename are computed character *)
(* by character as Python computes them.                                   *)
(*   46 '.'  44 ','  47 '/'  95 '_'  45 '-'  32 ' '  9 TAB  10 LF          *)
(*   65..90 'A'..'Z'  97..122 'a'..'z'  48..57 '0'..'9'                    *)
(***************************************************************************)
EXTENDS Integers, Sequences, FiniteSets, TLC

VARIABLES
    phase,        \* "import" | "config" | "serving": module-level code of app.py
    reader,       \* ocr_utils.reader.reader: 0 = unbound, k = the k-th engine built
    constructed,  \* number of easyocr.Reader(...) constructions so far
    envExt,       \* value of the ALLOWED_EXTENSIONS environment variable
    allowed,      \* app.config['ALLOWED_EXTENSIONS']
    req,          \* per request: handler position, inputs, locals, outcome
    fs,           \* the upload directory: path -> bytes stored there
    text,         \* clean_text: the input string
    once,         \* clean_text(text)
    twice,        \* clean_text(clean_text(text))
    cpc,          \* position of the clean_text driver
    fname,        \* allowed_file: the filename argument
    verdict       \* allowed_file: "none" | "allowed" | "rejected"

vars == <<phase, reader, constructed, envExt, allowed, req, fs,
          text, once, twice, cpc, fname, verdict>>

engineVars == <<reader, constructed>>
configVars == <<envExt, allowed>>
cleanVars == <<text, once, twice, cpc>>
allowVars == <<fname, verdict>>

(***************************************************************************)
(* Bounds                                                                  *)
(***************************************************************************)
NumReqs == 2        \* requests in flight
MaxTextLen == 5     \* length of the strings given to clean_text
MaxNameLen == 3     \* length of the generated filenames given to allowed_file

Reqs == 1..NumReqs

(***************************************************************************)
(* Python string primitives                                                *)
(***************************************************************************)
\* str.isspace / the regex class \s on str patterns
IsSpace(c) == c \in (9..13) \cup (28..32) \cup {133, 160}

\* str.lower on the ASCII range
Lower(c) == IF c \in 65..90 THEN c + 32 ELSE c

LowerStr(s) == [i \in 1..Len(s) |-> Lower(s[i])]

\* c in s
Contains(s, c) == \E i \in 1..Len(s) : s[i] = c

\* index of the first / last occurrence of c in s (0 when absent)
FirstIndex(s, c) ==
    IF Contains(s, c)
    THEN CHOOSE i \in 1..Len(s) : s[i] = c /\ \A j \in 1..(i - 1) : s[j] # c
    ELSE 0

LastIndex(s, c) ==
    IF Contains(s, c)
    THEN CHOOSE i \in 1..Len(s) : s[i] = c /\ \A j \in (i + 1)..Len(s) : s[j] # c
    ELSE 0

\* s.split(c): the list of pieces, empty pieces kept
RECURSIVE Split(_, _)
Split(s, c) ==
    IF ~Contains(s, c) THEN <<s>>
    ELSE LET i == FirstIndex(s, c)
         IN  <<SubSeq(s, 1, i - 1)>> \o Split(SubSeq(s, i + 1, Len(s)), c)

\* s.rsplit(c, 1): at most one split, at the last occurrence of c
RSplit1(s, c) ==
    IF ~Contains(s, c) THEN <<s>>
    ELSE LET i == LastIndex(s, c)
         IN  <<SubSeq(s, 1, i - 1), SubSeq(s, i + 1, Len(s))>>

\* s.lstrip / s.rstrip / s.strip over a set of characters
RECURSIVE LStrip(_, _)
LStrip(s, cs) ==
    IF s # <<>> /\ Head(s) \in cs THEN LStrip(Tail(s), cs) ELSE s

RECURSIVE RStrip(_, _)
RStrip(s, cs) ==
    IF s # <<>> /\ s[Len(s)] \in cs THEN RStrip(SubSeq(s, 1, Len(s) - 1), cs) ELSE s

Strip(s, cs) == RStrip(LStrip(s, cs), cs)

SpaceChars == {c \in 0..255 : IsSpace(c)}

\* re.sub(r'\s+', rep, s): every maximal run of whitespace becomes rep
RECURSIVE SubSpaceRuns(_, _)
SubSpaceRuns(s, rep) ==
    IF s = <<>> THEN <<>>
    ELSE IF IsSpace(Head(s))
         THEN rep \o SubSpaceRuns(LStrip(Tail(s), SpaceChars), rep)
         ELSE <<Head(s)>> \o SubSpaceRuns(Tail(s), rep)

\* sep.join(parts)
RECURSIVE Join(_, _)
Join(parts, sep) ==
    IF parts = <<>> THEN <<>>
    ELSE IF Len(parts) = 1 THEN parts[1]
         ELSE parts[1] \o sep \o Join(Tail(parts), sep)

\* set(list)
ToSet(parts) == {parts[i] : i \in 1..Len(parts)}

(***************************************************************************)
(* ocr_utils/postprocess.py                                                *)
(***************************************************************************)
IsPrintable(c) == c \in 32..126

\* re.sub(r'[^\x20-\x7E]', '', text)
RemoveNonPrintable(s) == SelectSeq(s, IsPrintable)

\* re.sub(r'\s+', ' ', text)
CollapseSpaces(s) == SubSpaceRuns(s, <<32>>)

\* clean_text with the whitespace collapse done before the non-printable
\* characters are removed
CleanTextCollapseFirst(s) ==
    Strip(RemoveNonPrintable(CollapseSpaces(s)), SpaceChars)

\* clean_text(text)
CleanText(s) == Strip(CollapseSpaces(RemoveNonPrintable(s)), SpaceChars)

(***************************************************************************)
(* The clean_text driver: a string is drawn, cleaned, and cleaned again    *)
(***************************************************************************)
TextAlphabet == {9, 10, 32, 97, 233}     \* TAB, LF, ' ', 'a', e-acute

Texts == UNION {[1..n -> TextAlphabet] : n \in 0..MaxTextLen}

CleanOnce ==
    /\ cpc = "in"
    /\ once' = CleanText(text)
    /\ cpc' = "once"
    /\ UNCHANGED <<text, twice, phase, engineVars, configVars, req, fs, allowVars>>

CleanTwice ==
    /\ cpc = "once"
    /\ twice' = CleanText(once)
    /\ cpc' = "twice"
    /\ UNCHANGED <<text, once, phase, engineVars, configVars, req, fs, allowVars>>

(***************************************************************************)
(* backend/app/app.py: configuration and allowed_file                      *)
(***************************************************************************)
\* os.getenv("ALLOWED_EXTENSIONS", "jpg,jpeg,png")
DefaultExtensions == <<106, 112, 103, 44, 106, 112, 101, 103, 44, 112, 110, 103>>

\* set(os.getenv(...).split(','))
ParseAllowed(env) == ToSet(Split(env, 44))

\* allowed_file with the extension taken as the second '.'-separated piece
AllowedFileSecondPiece(filename, allow) ==
    /\ Contains(filename, 46)
    /\ LowerStr(Split(filename, 46)[2]) \in allow

\* allowed_file(filename)
AllowedFile(filename, allow) ==
    /\ Contains(filename, 46)
    /\ LowerStr(RSplit1(filename, 46)[2]) \in allow

(***************************************************************************)
(* werkzeug.utils.secure_filename as called by extract_text, on ASCII      *)
(* names (NFKD normalisation and the ASCII re-encoding leave them as is)   *)
(***************************************************************************)
IsFilenameChar(c) ==
    c \in (65..90) \cup (97..122) \cup (48..57) \cup {95, 46, 45}

SlashToSpace(s) == [i \in 1..Len(s) |-> IF s[i] = 47 THEN 32 ELSE s[i]]

SecureFilename(filename) ==
    LET spaced == SlashToSpace(filename)
        joined == SubSpaceRuns(Strip(spaced, SpaceChars), <<95>>)
    IN  Strip(SelectSeq(joined, IsFilenameChar), {46, 95})

(***************************************************************************)
(* The allowed_file driver: a configuration and a filename are drawn, the  *)
(* configuration is loaded and the filename checked                        *)
(***************************************************************************)
NameAlphabet == {46, 74, 106, 97}     \* '.', 'J', 'j', 'a'

GeneratedNames == UNION {[1..n -> NameAlphabet] : n \in 0..MaxNameLen}

NamedFiles ==
    { <<110, 111, 116, 101, 46, 74, 80, 71>>,          \* note.JPG
      <<110, 111, 116, 101, 46, 106, 112, 103>>,       \* note.jpg
      <<100, 97, 116, 97, 46, 116, 120, 116>> }        \* data.txt

CheckedNames == GeneratedNames \cup NamedFiles

EnvValues ==
    { DefaultExtensions,
      <<74, 80, 71>>,                                   \* "JPG"
      <<106>>,                                          \* "j"
      <<74>>,                                           \* "J"
      <<74, 44, 106>> }                                 \* "J,j"

\* ocr_utils/reader.py runs when app.py imports ocr_utils: the engine is built
ImportOcrUtils ==
    /\ phase = "import"
    /\ constructed' = constructed + 1
    /\ reader' = constructed + 1
    /\ phase' = "config"
    /\ UNCHANGED <<configVars, req, fs, cleanVars, allowVars>>

\* app.config['ALLOWED_EXTENSIONS'] = set(os.getenv(...).split(','))
LoadConfig ==
    /\ phase = "config"
    /\ allowed' = ParseAllowed(envExt)
    /\ phase' = "serving"
    /\ UNCHANGED <<engineVars, envExt, req, fs, cleanVars, allowVars>>

CheckAllowed ==
    /\ phase = "serving"
    /\ verdict = "none"
    /\ verdict' = IF AllowedFile(fname, allowed) THEN "allowed" ELSE "rejected"
    /\ UNCHANGED <<phase, engineVars, configVars, req, fs, cleanVars, fname>>

(***************************************************************************)
(* POST /extract-text: extract_text and the pipeline it calls              *)
(***************************************************************************)
UploadNames ==
    { <<>>,                                             \* ""
      <<97, 46, 106, 112, 103>>,                        \* a.jpg
      <<97, 46, 74, 80, 71>>,                           \* a.JPG
      <<47, 97, 46, 106, 112, 103>>,                    \* /a.jpg
      <<97, 106, 112, 103>>,                            \* ajpg
      <<97, 46, 106, 112, 103, 46, 116, 120, 116>> }    \* a.jpg.txt

ServerEnvs == { DefaultExtensions, <<74, 80, 71>> }     \* default, "JPG"

\* what reader.readtext returns, regions and confidences left out
EngineResults ==
    { << <<72, 73>> >>,                                 \* ["HI"]
      << <<97, 32>>, <<98>> >> }                        \* ["a ", "b"]

Paths == {SecureFilename(f) : f \in UploadNames}

\* the bytes of request r's upload; ok: cv2.imread can decode them
Bytes(r, ok) == [id |-> r, ok |-> ok]

Absent == [id |-> 0, ok |-> FALSE]

NoOutcome ==
    [kind |-> "none", status |-> 0, key |-> "", msg |-> "", body |-> <<>>]

\* jsonify({'error': msg}), 400
ErrorResponse(msg) ==
    [kind |-> "response", status |-> 400, key |-> "error", msg |-> msg, body |-> <<>>]

\* jsonify({'extracted_text': t})
TextResponse(t) ==
    [kind |-> "response", status |-> 200, key |-> "extracted_text", msg |-> "",
     body |-> t]

\* an exception that leaves extract_text; Flask answers 500 to the client
Raised(exc) ==
    [kind |-> "exception", status |-> 500, key |-> "", msg |-> exc, body |-> <<>>]

IdleReq ==
    [pc |-> "idle", hasFile |-> FALSE, filename |-> <<>>,
     path |-> <<>>, wrote |-> FALSE, decode |-> "notyet", img |-> Absent,
     filtered |-> FALSE, ocrCalls |-> 0, raw |-> <<>>, cleaned |-> FALSE,
     extracted |-> <<>>, removed |-> FALSE, out |-> NoOutcome]

\* the three checks with the two first messages exchanged
ValidationErrorSwapped(hasFile, filename, allow) ==
    IF ~hasFile THEN "No selected file"
    ELSE IF filename = <<>> THEN "No file part in request"
    ELSE IF ~AllowedFile(filename, allow) THEN "Unsupported file type"
    ELSE ""

\* the message of the 400 answer, "" when the upload is accepted
ValidationError(hasFile, filename, allow) ==
    IF ~hasFile THEN "No file part in request"
    ELSE IF filename = <<>> THEN "No selected file"
    ELSE IF ~AllowedFile(filename, allow) THEN "Unsupported file type"
    ELSE ""

\* a client posts to /extract-text
Arrive(r) ==
    /\ phase = "serving"
    /\ req[r].pc = "idle"
    /\ \/ req' = [req EXCEPT ![r].pc = "validate"]
       \/ \E fn \in UploadNames :
            req' = [req EXCEPT ![r].pc = "validate", ![r].hasFile = TRUE,
                               ![r].filename = fn]
    /\ UNCHANGED <<phase, engineVars, configVars, fs, cleanVars, allowVars>>

Validate(r) ==
    /\ req[r].pc = "validate"
    /\ LET err == ValidationError(req[r].hasFile, req[r].filename, allowed)
       IN  req' = IF err # ""
                  THEN [req EXCEPT ![r].pc = "done", ![r].out = ErrorResponse(err)]
                  ELSE [req EXCEPT ![r].pc = "save"]
    /\ UNCHANGED <<phase, engineVars, configVars, fs, cleanVars, allowVars>>

\* filename = secure_filename(file.filename); file.save(file_path)
\* the upload's bytes are read from the request stream here
Save(r) ==
    /\ req[r].pc = "save"
    /\ LET p == SecureFilename(req[r].filename)
       IN  IF p = <<>>
           THEN /\ req' = [req EXCEPT ![r].pc = "done", ![r].path = p,
                                      ![r].out = Raised("IsADirectoryError: file.save")]
                /\ fs' = fs
           ELSE \E ok \in BOOLEAN :
                /\ fs' = [fs EXCEPT ![p] = Bytes(r, ok)]
                /\ req' = [req EXCEPT ![r].pc = "imread", ![r].path = p,
                                      ![r].wrote = TRUE]
    /\ UNCHANGED <<phase, engineVars, configVars, cleanVars, allowVars>>

\* preprocess_image without the test of cv2.imread's result
PreprocessDecodeUnchecked(r) ==
    /\ req[r].pc = "imread"
    /\ LET data == fs[req[r].path]
       IN  req' = [req EXCEPT ![r].pc = "filter", ![r].img = data,
                              ![r].decode = IF data = Absent \/ ~data.ok
                                            THEN "nodata" ELSE "image"]
    /\ UNCHANGED <<phase, engineVars, configVars, fs, cleanVars, allowVars>>

\* img = cv2.imread(image_path, ...); if img is None: raise FileNotFoundError
PreprocessDecode(r) ==
    /\ req[r].pc = "imread"
    /\ LET data == fs[req[r].path]
       IN  req' = IF data = Absent \/ ~data.ok
                  THEN [req EXCEPT ![r].pc = "done", ![r].decode = "nodata",
                                   ![r].out = Raised("FileNotFoundError: Image not found")]
                  ELSE [req EXCEPT ![r].pc = "filter", ![r].decode = "image",
                                   ![r].img = data]
    /\ UNCHANGED <<phase, engineVars, configVars, fs, cleanVars, allowVars>>

\* cv2.GaussianBlur then cv2.adaptiveThreshold
PreprocessFilter(r) ==
    /\ req[r].pc = "filter"
    /\ req' = [req EXCEPT ![r].pc = "readtext", ![r].filtered = TRUE]
    /\ UNCHANGED <<phase, engineVars, configVars, fs, cleanVars, allowVars>>

\* extract_text_from_image building the engine on each call
ReadTextRebuild(r) ==
    /\ req[r].pc = "readtext"
    /\ constructed' = constructed + 1
    /\ reader' = constructed + 1
    /\ \/ req' = [req EXCEPT ![r].pc = "done", ![r].ocrCalls = @ + 1,
                             ![r].out = Raised("Exception: reader.readtext")]
       \/ \E res \in EngineResults :
            req' = [req EXCEPT ![r].pc = "clean", ![r].ocrCalls = @ + 1,
                               ![r].raw = Join(res, <<32>>)]
    /\ UNCHANGED <<phase, configVars, fs, cleanVars, allowVars>>

\* result = reader.readtext(preprocessed_img); raw_text = " ".join(...)
ReadText(r) ==
    /\ req[r].pc = "readtext"
    /\ reader # 0
    /\ \/ req' = [req EXCEPT ![r].pc = "done", ![r].ocrCalls = @ + 1,
                             ![r].out = Raised("Exception: reader.readtext")]
       \/ \E res \in EngineResults :
            req' = [req EXCEPT ![r].pc = "clean", ![r].ocrCalls = @ + 1,
                               ![r].raw = Join(res, <<32>>)]
    /\ UNCHANGED <<phase, engineVars, configVars, fs, cleanVars, allowVars>>

\* cleaned_text = clean_text(raw_text); return cleaned_text
Normalize(r) ==
    /\ req[r].pc = "clean"
    /\ req' = [req EXCEPT ![r].pc = "remove", ![r].cleaned = TRUE,
                          ![r].extracted = CleanText(req[r].raw)]
    /\ UNCHANGED <<phase, engineVars, configVars, fs, cleanVars, allowVars>>

\* os.remove(file_path); return jsonify({'extracted_text': extracted_text})
RemoveAndRespond(r) ==
    /\ req[r].pc = "remove"
    /\ IF fs[req[r].path] = Absent
       THEN /\ req' = [req EXCEPT ![r].pc = "done",
                                  ![r].out = Raised("FileNotFoundError: os.remove")]
            /\ fs' = fs
       ELSE /\ fs' = [fs EXCEPT ![req[r].path] = Absent]
            /\ req' = [req EXCEPT ![r].pc = "done", ![r].removed = TRUE,
                                  ![r].out = TextResponse(req[r].extracted)]
    /\ UNCHANGED <<phase, engineVars, configVars, cleanVars, allowVars>>

(***************************************************************************)
(* Specifications                                                          *)
(***************************************************************************)
\* the server: startup, then NumReqs requests handled by concurrent threads
Init ==
    /\ phase = "import"
    /\ reader = 0
    /\ constructed = 0
    /\ envExt \in ServerEnvs
    /\ allowed = {}
    /\ req = [r \in Reqs |-> IdleReq]
    /\ fs = [p \in Paths |-> Absent]
    /\ text = <<>> /\ once = <<>> /\ twice = <<>> /\ cpc = "off"
    /\ fname = <<>> /\ verdict = "off"

Next ==
    \/ ImportOcrUtils
    \/ LoadConfig
    \/ \E r \in Reqs : Arrive(r)
    \/ \E r \in Reqs : Validate(r)
    \/ \E r \in Reqs : Save(r)
    \/ \E r \in Reqs : PreprocessDecode(r)
    \/ \E r \in Reqs : PreprocessFilter(r)
    \/ \E r \in Reqs : ReadText(r)
    \/ \E r \in Reqs : Normalize(r)
    \/ \E r \in Reqs : RemoveAndRespond(r)

Spec == Init /\ [][Next]_vars

\* clean_text on every string over TextAlphabet up to MaxTextLen
InitClean ==
    /\ phase = "import"
    /\ reader = 0
    /\ constructed = 0
    /\ envExt = DefaultExtensions
    /\ allowed = {}
    /\ req = [r \in Reqs |-> IdleReq]
    /\ fs = [p \in Paths |-> Absent]
    /\ text \in Texts /\ once = <<>> /\ twice = <<>> /\ cpc = "in"
    /\ fname = <<>> /\ verdict = "off"

NextClean == CleanOnce \/ CleanTwice

SpecClean == InitClean /\ [][NextClean]_vars

\* allowed_file on every configuration of EnvValues and name of CheckedNames
InitAllowed ==
    /\ phase = "import"
    /\ reader = 0
    /\ constructed = 0
    /\ envExt \in EnvValues
    /\ allowed = {}
    /\ req = [r \in Reqs |-> IdleReq]
    /\ fs = [p \in Paths |-> Absent]
    /\ text = <<>> /\ once = <<>> /\ twice = <<>> /\ cpc = "off"
    /\ fname \in CheckedNames /\ verdict = "none"

NextAllowed == ImportOcrUtils \/ LoadConfig \/ CheckAllowed

SpecAllowed == InitAllowed /\ [][NextAllowed]_vars

(***************************************************************************)
(* Properties                                                              *)
(***************************************************************************)
\* the request has been through the three checks of extract_text
Validated(r) == req[r].pc \notin {"idle", "validate"}

\* the request is between file.save and os.remove
UsingFile(r) == req[r].pc \in {"imread", "filter", "readtext", "clean", "remove"}

\* the pipeline has touched the request's upload
Processed(r) ==
    \/ req[r].wrote
    \/ req[r].decode # "notyet"
    \/ req[r].filtered
    \/ req[r].ocrCalls > 0
    \/ req[r].cleaned

\* the part of f after its last '.'
IsExtensionOf(e, f) ==
    \E i \in 1..Len(f) :
        /\ f[i] = 46
        /\ \A j \in (i + 1)..Len(f) : f[j] # 46
        /\ e = SubSeq(f, i + 1, Len(f))

\* f has a '.', and what follows its last '.', lower-cased, is in allow
ExtensionInAllowSet(f, allow) ==
    \E i \in 1..Len(f) :
        IsExtensionOf(SubSeq(f, i + 1, Len(f)), f)
        /\ LowerStr(SubSeq(f, i + 1, Len(f))) \in allow

\* C1: every request that passed validation and wrote its upload has, once it
\* has finished, no upload of its own left in the upload directory, whether
\* the pipeline succeeded or raised.
C1_CleanupOnEveryPath ==
    \A r \in Reqs :
        (req[r].pc = "done" /\ req[r].wrote) => fs[req[r].path].id # r

\* C2 as stated: an upload is written, preprocessed or recognised only if its
\* lower-cased last extension is in the allow-set, and every request whose
\* filename has no '.' or has an extension outside the allow-set is answered
\* 400 "Unsupported file type" with no write, preprocessing or OCR call.
C2_AllowSetGateAnyName ==
    \A r \in Reqs :
        /\ Processed(r) => ExtensionInAllowSet(req[r].filename, allowed)
        /\ ( /\ req[r].pc = "done"
             /\ req[r].hasFile
             /\ ~ExtensionInAllowSet(req[r].filename, allowed) )
           => /\ req[r].out = ErrorResponse("Unsupported file type")
              /\ ~Processed(r)

\* C2 amended: as above, for every request whose filename is not empty (the
\* empty filename is answered 400 "No selected file").
C2_AllowSetGate ==
    \A r \in Reqs :
        /\ Processed(r) => ExtensionInAllowSet(req[r].filename, allowed)
        /\ ( /\ req[r].pc = "done"
             /\ req[r].hasFile
             /\ req[r].filename # <<>>
             /\ ~ExtensionInAllowSet(req[r].filename, allowed) )
           => /\ req[r].out = ErrorResponse("Unsupported file type")
              /\ ~Processed(r)

\* one request was rejected for its extension while another, accepted, went
\* through the OCR engine
C2_Witness ==
    \E r, q \in Reqs :
        /\ req[r].pc = "done"
        /\ req[r].hasFile
        /\ req[r].filename # <<>>
        /\ ~ExtensionInAllowSet(req[r].filename, allowed)
        /\ req[r].out = ErrorResponse("Unsupported file type")
        /\ req[q].wrote
        /\ req[q].ocrCalls > 0

\* C3: while a request is between saving and removing its temporary file, the
\* file at its path holds the bytes that request uploaded (no other request
\* has overwritten or deleted it), the image its pipeline decoded is its own
\* upload, and its os.remove does not fail.
C3_TempFileIsolation ==
    \A r \in Reqs :
        /\ UsingFile(r) => fs[req[r].path].id = r
        /\ req[r].decode = "image" => req[r].img.id = r
        /\ req[r].out # Raised("FileNotFoundError: os.remove")

\* C4: a request with no 'file' field, or with an empty filename, is answered
\* 400 with an 'error' key ('No file part in request' when the field is
\* missing, and never the extension check's message), it has written nothing
\* to and removed nothing from the upload directory, and the OCR pipeline was
\* not invoked for it.
C4_ValidationRejection ==
    \A r \in Reqs :
        (Validated(r) /\ (~req[r].hasFile \/ req[r].filename = <<>>))
        => /\ req[r].pc = "done"
           /\ req[r].out.kind = "response"
           /\ req[r].out.status = 400
           /\ req[r].out.key = "error"
           /\ ~req[r].hasFile => req[r].out.msg = "No file part in request"
           /\ req[r].out.msg # "Unsupported file type"
           /\ ~Processed(r)
           /\ ~req[r].removed

\* a request without the field and one with an empty filename were both
\* rejected while the upload directory held another request's file
C4_Witness ==
    \E r, q \in Reqs :
        /\ req[r].pc = "done" /\ ~req[r].hasFile
        /\ req[q].pc = "done" /\ req[q].hasFile /\ req[q].filename = <<>>

\* C5: a request whose OCR engine call failed ends with an error response of
\* the 500 class produced by the handler, not with an exception leaving the
\* handler, and the engine was called exactly once for it.
C5_EngineFaultCaught ==
    \A r \in Reqs :
        (req[r].pc = "done" /\ req[r].ocrCalls > 0 /\ ~req[r].cleaned)
        => /\ req[r].out.kind = "response"
           /\ req[r].out.status >= 500
           /\ req[r].ocrCalls = 1

\* C6: no engine exists before ocr_utils is imported and no request is
\* accepted before then; from then on exactly one engine has been built and
\* `reader` is bound to it, however many requests have run.
C6_EngineBuiltOnce ==
    /\ phase = "import"
       => constructed = 0 /\ \A r \in Reqs : req[r].pc = "idle"
    /\ phase # "import" => constructed = 1 /\ reader = 1
    /\ \A r \in Reqs : req[r].pc # "idle" => constructed = 1 /\ reader = 1

\* every request has been through the OCR engine
C6_Witness ==
    /\ \A r \in Reqs : req[r].pc = "done" /\ req[r].ocrCalls = 1
    /\ constructed = 1

\* C7: allowed_file rejects a filename exactly when the part after its last
\* '.' equals no entry of the configured list once both are lower-cased.
C7_CaseInsensitiveBothSides ==
    verdict \in {"allowed", "rejected"}
    => ( verdict = "allowed"
         <=> \E e \in ToSet(Split(envExt, 44)) :
                 \E x \in {SubSeq(fname, i + 1, Len(fname)) : i \in 1..Len(fname)} :
                     IsExtensionOf(x, fname) /\ LowerStr(x) = LowerStr(e) )

IsBlank(c) == c \in {32, 9, 10}
IsVisible(c) == c \in 33..126

\* C8: wherever the input has two printable non-space characters separated
\* by a non-empty run of spaces, tabs and newlines, the output is the cleaned
\* text up to the first, one space, and the cleaned text from the second.
C8_WhitespaceRunsCollapse ==
    cpc # "in"
    => \A i, j \in 1..Len(text) :
           ( /\ i + 1 < j
             /\ IsVisible(text[i])
             /\ IsVisible(text[j])
             /\ \A k \in (i + 1)..(j - 1) : IsBlank(text[k]) )
           => once = CleanText(SubSeq(text, 1, i)) \o <<32>>
                     \o CleanText(SubSeq(text, j, Len(text)))

\* C9: clean_text(clean_text(s)) = clean_text(s).
C9_Idempotent == cpc = "twice" => twice = once

\* a string with a non-printable character between spaces was cleaned twice
C9_Witness ==
    /\ cpc = "twice"
    /\ \E i \in 2..(Len(text) - 1) :
           text[i] = 233 /\ text[i - 1] = 32 /\ text[i + 1] = 32
    /\ Len(once) >= 3

\* C10: when cv2.imread returns no data, preprocess_image raises "Image not
\* found" at once: the request is over with that exception, no blur or
\* threshold ran, the engine and clean_text were not called, and no 200
\* response was produced; and no image is filtered that was not decoded.
C10_DecodeFailureStops ==
    \A r \in Reqs :
        /\ req[r].decode = "nodata"
           => /\ req[r].pc = "done"
              /\ req[r].out = Raised("FileNotFoundError: Image not found")
              /\ ~req[r].filtered
              /\ req[r].ocrCalls = 0
              /\ ~req[r].cleaned
        /\ req[r].filtered => req[r].decode = "image"

\* a request stored bytes that cv2.imread could not decode, and is over
C10_Witness ==
    \E r \in Reqs :
        /\ req[r].decode = "nodata"
        /\ req[r].pc = "done"
        /\ fs[req[r].path] = Bytes(r, FALSE)

====
